---- MODULE Spec2Model ----
(***************************************************************************)
(* DocCrawler (src/src/crawler.py): a recursive documentation crawler.     *)
(*                                                                         *)
(* The model follows one DocCrawler instance from construction (__init__)  *)
(* through main's single call of crawl.  The recursion of crawl is an      *)
(* explicit stack of frames; every statement of crawl that talks to the    *)
(* outside (sleep, fetch, extract, save, extract_links) is one action, and *)
(* the outcome of each outside call is chosen by the environment.          *)
(*                                                                         *)
(* URLs are records of the parts urlparse splits a URL string into; a path *)
(* is a sequence of tokens, so that endswith / substring / startswith are  *)
(* computed on it as the code computes them on the string.  Two URL        *)
(* strings are equal exactly when their records are equal.                 *)
(***************************************************************************)
EXTENDS Integers, Sequences, FiniteSets, TLC

VARIABLES
    base_url,       \* self.base_url                      (crawler.py:42)
    seed,           \* the url argument of the outermost crawl call
    max_pages,      \* Optional[int]: <<>> is None, <<n>> is n
    site_robots,    \* what the site answers for /robots.txt (environment)
    rp,             \* self.rp, the RobotFileParser       (crawler.py:57)
    crawl_delay,    \* self.crawl_delay                   (crawler.py:68)
    visited_urls,   \* self.visited_urls                  (crawler.py:44)
    stack,          \* recursion stack of crawl, top first
    artifact,       \* records appended to output_file_path, in order
    events,         \* sleeps and transport requests, in order
    site,           \* the anchors every page of the site lists (environment)
    failed,         \* URLs whose fetch or extraction yielded nothing / raised
    write_failed,   \* URLs whose record could not be written
    links_failed,   \* URLs whose extract_links raised (caught at line 139)
    handled,        \* URLs whose call reached the handler of line 185
    pc              \* "new", "constructed", "crawling", "done", or
                    \* "blocked_read" / "blocked_get": inside an outside call
                    \* that never returns, or
                    \* "raised_init" / "raised": an exception has left
                    \* __init__ / crawl, and main with it

vars == <<base_url, seed, max_pages, site_robots, rp, crawl_delay, visited_urls,
          stack, artifact, events, site, failed, write_failed, links_failed,
          handled, pc>>

----------------------------------------------------------------------------
(* Bounds of the model *)

\* max_pages is None or 0..MaxBudget
MaxBudget == 2
\* declared Crawl-delay and Request-rate seconds range over 0..MaxDelay
MaxDelay == 3
\* declared Request-rate requests range over 1..MaxRequests
MaxRequests == 2

----------------------------------------------------------------------------
(* Optional values: None is the empty sequence, a value v is <<v>> *)

None == <<>>
Some(v) == <<v>>
IsNone(o) == Len(o) = 0
Val(o) == o[1]

----------------------------------------------------------------------------
(* String operations on token sequences *)

\* s.startswith(p)
StartsWith(s, p) == Len(p) <= Len(s) /\ SubSeq(s, 1, Len(p)) = p
\* s.endswith(tok) for a one-token suffix
EndsWith(s, tok) == Len(s) > 0 /\ s[Len(s)] = tok
\* sub in s
Contains(s, sub) ==
    \E i \in 1..(Len(s) - Len(sub) + 1) : SubSeq(s, i, i + Len(sub) - 1) = sub

----------------------------------------------------------------------------
(* The URLs of the model *)

UrlQ(s, n, p, q, f) ==
    [scheme |-> s, netloc |-> n, path |-> p, query |-> q, fragment |-> f]

\* a URL without query
Url(s, n, p, f) == UrlQ(s, n, p, "", f)

U_root   == Url("https", "h1", <<"/">>, "")
U_b      == Url("https", "h1", <<"/", "b", ".html">>, "")
U_bfrag  == Url("https", "h1", <<"/", "b", ".html">>, "x")
U_bq     == UrlQ("https", "h1", <<"/", "b", ".html">>, "q", "")
U_static == Url("https", "h1", <<"/", "_static", "/", "s", ".html">>, "")
U_css    == Url("https", "h1", <<"/", "p", ".css">>, "")
U_http   == Url("http",  "h1", <<"/", "d", ".html">>, "")
U_ext    == Url("https", "h2", <<"/", "c", ".html">>, "")

URLs == {U_root, U_b, U_bfrag, U_bq, U_static, U_css, U_http, U_ext}

----------------------------------------------------------------------------
(* urllib.robotparser.RobotFileParser, as far as the crawler uses it.      *)
(* A robots.txt file of the model holds one "User-agent: *" group with     *)
(* Disallow lines, an optional Crawl-delay and an optional Request-rate.   *)

\* RobotFileParser(): nothing read yet
NewRobotFileParser ==
    [disallow_all |-> FALSE, allow_all |-> FALSE, last_checked |-> FALSE,
     disallow |-> {}, delay |-> None, req_rate |-> None]

\* rp.read() raises when the transport fails before any HTTP status arrives
ReadRaises(answer) == answer.outcome = "urlerror"

\* rp.read(): the parser after the call (unchanged when the call raises)
RpRead(r, answer) ==
    CASE answer.outcome = "urlerror" -> r
      [] answer.outcome = "http403"  -> [r EXCEPT !.disallow_all = TRUE]
      [] answer.outcome = "http404"  -> [r EXCEPT !.allow_all = TRUE]
      [] OTHER -> [r EXCEPT !.last_checked = TRUE,
                            !.disallow = answer.disallow,
                            !.delay = answer.delay,
                            !.req_rate = answer.req_rate]

\* the string can_fetch matches the rule paths against: quote() of the path
\* followed by "?" and the query and by "#" and the fragment (quote turns "?"
\* into "%3F" and "#" into "%23"), and "/" when that is empty; the URLs of
\* the model have no params
Filename(url) ==
    LET name == url.path
                \o (IF url.query = "" THEN <<>> ELSE <<"%3F", url.query>>)
                \o (IF url.fragment = "" THEN <<>> ELSE <<"%23", url.fragment>>)
    IN  IF name = <<>> THEN <<"/">> ELSE name

\* rp.can_fetch(user_agent, url)
CanFetch(r, url) ==
    IF r.disallow_all THEN FALSE
    ELSE IF r.allow_all THEN TRUE
    ELSE IF ~r.last_checked THEN FALSE
    ELSE ~\E rule \in r.disallow : StartsWith(Filename(url), rule)

\* rp.crawl_delay("*")
RpCrawlDelay(r) == IF ~r.last_checked THEN None ELSE r.delay

\* rp.request_rate("*")
RpRequestRate(r) == IF ~r.last_checked THEN None ELSE r.req_rate

----------------------------------------------------------------------------
(* DocCrawler._get_crawl_delay and the constructor's default *)

\* Python truth value of an Optional number
Truthy(o) == ~IsNone(o) /\ Val(o) # 0

\* float(rp.crawl_delay("*") or rp.request_rate("*").seconds), None when
\* that raises AttributeError (request_rate is None)
GetCrawlDelay(r) ==
    IF Truthy(RpCrawlDelay(r)) THEN RpCrawlDelay(r)
    ELSE IF IsNone(RpRequestRate(r)) THEN None
    ELSE Some(Val(RpRequestRate(r)).seconds)

\* the default of crawler.py:68
DefaultDelay == 1

\* self._get_crawl_delay() or 1.0
ResolveCrawlDelay(r) ==
    IF Truthy(GetCrawlDelay(r)) THEN Val(GetCrawlDelay(r)) ELSE DefaultDelay

----------------------------------------------------------------------------
(* DocCrawler.is_valid_url *)

\* the domain test left out
SameNetlocAny(url, base) == TRUE

\* crawler.py:100
SameNetloc(url, base) == url.netloc = base.netloc

PageSuffix(url) == EndsWith(url.path, ".html") \/ EndsWith(url.path, "/")

ReservedSegment(url) ==
    \/ Contains(url.path, <<"/", "_sources", "/">>)
    \/ Contains(url.path, <<"/", "_static", "/">>)

\* the domain test missing
IsValidUrlNoDomain(url, base, r) ==
    IF ~PageSuffix(url) THEN FALSE
    ELSE IF ReservedSegment(url) THEN FALSE
    ELSE CanFetch(r, url)

\* the reserved-segment test missing
IsValidUrlNoReserved(url, base, r) ==
    IF ~SameNetloc(url, base) THEN FALSE
    ELSE IF ~PageSuffix(url) THEN FALSE
    ELSE CanFetch(r, url)

\* crawler.py:81-112
is_valid_url(url, base, r) ==
    IF ~SameNetloc(url, base) THEN FALSE
    ELSE IF ~PageSuffix(url) THEN FALSE
    ELSE IF ReservedSegment(url) THEN FALSE
    ELSE CanFetch(r, url)

\* crawler.py:129-135: the anchors of a page that is_valid_url accepts
\* (every href is absolute, so urljoin returns it)
ValidLinks(anchors, base, r) == {l \in anchors : is_valid_url(l, base, r)}

----------------------------------------------------------------------------
(* Inputs *)

\* what a site can answer for robots.txt
RobotsFailures ==
    {[outcome |-> o, disallow |-> {}, delay |-> None, req_rate |-> None] :
        o \in {"urlerror", "http403", "http404"}}

RobotsFiles(rules, delays, rates) ==
    [outcome : {"ok"}, disallow : rules, delay : delays, req_rate : rates]

OptDelays == {None} \cup {Some(d) : d \in 0..MaxDelay}

\* "Request-rate: n/d" with d >= 1 (n requests in d seconds)
OptRates ==
    {None} \cup {Some([requests |-> n, seconds |-> d]) :
                    n \in 1..MaxRequests, d \in 1..MaxDelay}

\* the Disallow rule sets of the crawl model: none, one page, everything
RuleSets == {{}, {<<"/", "b", ".html">>}, {<<"/">>}}

\* a site: the anchors of each of its pages
Site(root, b, bfrag, http, ext) ==
    [u \in URLs |->
        CASE u = U_root  -> root
          [] u = U_b     -> b
          [] u = U_bfrag -> bfrag
          [] u = U_http  -> http
          [] u = U_ext   -> ext
          [] OTHER       -> {}]

\* a cycle, with links out of scope and two spellings of one document
SiteCycle == Site({U_b, U_static, U_ext, U_css}, {U_root, U_bfrag}, {U_b}, {}, {U_root})
\* a page reachable along several paths, one of them under another scheme
SiteDiamond == Site({U_b, U_http}, {U_http, U_root}, {}, {U_b}, {U_b, U_http})
\* a chain that leaves the domain
SiteChain == Site({U_b}, {U_ext}, {}, {}, {})

\* a chain through two spellings of one document that differ in the query
SiteQuery ==
    [u \in URLs |->
        CASE u = U_root -> {U_bq}
          [] u = U_bq   -> {U_b}
          [] OTHER      -> {}]

Sites == {SiteCycle, SiteDiamond, SiteChain, SiteQuery}

\* crawler.py:129: find_all yields a page's anchors in document order; every
\* page of the model lists its anchors in this order
ListedOrder == <<U_root, U_b, U_bfrag, U_bq, U_static, U_css, U_http, U_ext>>

\* the place of u among the anchors of a page
Rank(u) == CHOOSE i \in DOMAIN ListedOrder : ListedOrder[i] = u

Bases == {U_root, U_ext}
Seeds == {U_root, U_ext}
Budgets == {None} \cup {Some(n) : n \in 0..MaxBudget}

----------------------------------------------------------------------------
(* The recursion stack *)

Frame(u, at, ls) == [url |-> u, pc |-> at, links |-> ls]

Top == Head(stack)

\* the frame on top moves to another statement
Goto(at) == stack' = <<[Top EXCEPT !.pc = at]>> \o Tail(stack)

\* every call on the stack is abandoned at once
ReturnAll == stack' = <<>>

\* the call on top returns to its caller
Return == stack' = Tail(stack)

At(at) == pc = "crawling" /\ stack # <<>> /\ Top.pc = at

\* the call on top goes on with another statement
Continue(at) == Goto(at) /\ pc' = pc /\ handled' = handled

\* the call on top returns normally
Returns == Return /\ pc' = pc /\ handled' = handled

\* crawler.py:185: an exception raised inside the try block of the call on
\* top is caught by its handler
Catch == Goto("except") /\ pc' = pc /\ handled' = handled \cup {Top.url}

\* an exception leaves the call on top (raised by the print of line 157 or
\* of line 186, both outside the try block): the caller waits at line 183,
\* inside its own try block, so its handler catches it; the outermost call
\* has no handler around it (crawler.py:243) and the exception leaves main
Escape ==
    IF Len(stack) = 1
    THEN /\ stack' = <<>>
         /\ pc' = "raised"
         /\ handled' = handled
    ELSE /\ stack' = <<[stack[2] EXCEPT !.pc = "except"]>>
                       \o SubSeq(stack, 3, Len(stack))
         /\ pc' = pc
         /\ handled' = handled \cup {stack[2].url}

Event(e, who, u) == [ev |-> e, by |-> who, url |-> u]

----------------------------------------------------------------------------
(* DocCrawler.__init__ *)

Init ==
    /\ base_url \in Bases
    /\ seed \in Seeds
    /\ max_pages \in Budgets
    /\ site_robots \in RobotsFailures \cup RobotsFiles(RuleSets, {None}, {None})
    /\ rp = NewRobotFileParser
    /\ crawl_delay = None
    /\ visited_urls = {}
    /\ stack = <<>>
    /\ artifact = <<>>
    /\ events = <<>>
    /\ site \in Sites
    /\ failed = {}
    /\ write_failed = {}
    /\ links_failed = {}
    /\ handled = {}
    /\ pc = "new"

\* crawler.py:48-68: create the output directory, read robots.txt (a failure
\* is caught and its message printed; a failure of the print of line 63 is
\* caught the same way), then resolve the crawl delay
Construct ==
    /\ pc = "new"
    /\ rp' = RpRead(NewRobotFileParser, site_robots)
    /\ crawl_delay' = Some(ResolveCrawlDelay(rp'))
    /\ pc' = "constructed"
    /\ UNCHANGED <<base_url, seed, max_pages, site_robots, visited_urls, stack,
                   artifact, events, site, failed, write_failed,
                   links_failed, handled>>

\* crawler.py:48, 65: os.makedirs is outside any try block and the print of
\* line 65 is inside the handler: an exception raised by either leaves
\* __init__ and main (by the second, after robots.txt has been read)
ConstructRaises ==
    /\ pc = "new"
    /\ \E at \in {"makedirs", "print"} :
          rp' = IF at = "makedirs" THEN rp
                ELSE RpRead(NewRobotFileParser, site_robots)
    /\ pc' = "raised_init"
    /\ UNCHANGED <<base_url, seed, max_pages, site_robots, crawl_delay,
                   visited_urls, stack, artifact, events, site, failed,
                   write_failed, links_failed, handled>>

\* crawler.py:62: rp.read() opens robots.txt with urlopen and no timeout;
\* a server that accepts the connection and stays silent keeps the
\* constructor inside the call
ConstructBlocks ==
    /\ pc = "new"
    /\ pc' = "blocked_read"
    /\ UNCHANGED <<base_url, seed, max_pages, site_robots, rp, crawl_delay,
                   visited_urls, stack, artifact, events, site, failed,
                   write_failed, links_failed, handled>>

----------------------------------------------------------------------------
(* DocCrawler.crawl *)

\* the visited test missing
AlreadyVisitedNever(url, visited) == FALSE

\* the visited test on the URL without its query and fragment
AlreadyVisitedDefrag(url, visited) ==
    \E v \in visited :
        v.scheme = url.scheme /\ v.netloc = url.netloc /\ v.path = url.path

\* crawler.py:151
AlreadyVisited(url, visited) == url \in visited

\* the budget test off by one
BudgetExceeded(mp, visited) == ~IsNone(mp) /\ Cardinality(visited) > Val(mp)

\* the budget test counting the page about to be added
BudgetReachedEarly(mp, visited) ==
    ~IsNone(mp) /\ Cardinality(visited) + 1 >= Val(mp)

\* crawler.py:153
BudgetReached(mp, visited) == ~IsNone(mp) /\ Cardinality(visited) >= Val(mp)

\* crawler.py:243: main calls crawl(url, max_pages)
StartCrawl ==
    /\ pc = "constructed"
    /\ stack' = <<Frame(seed, "entry", {})>>
    /\ pc' = "crawling"
    /\ UNCHANGED <<base_url, seed, max_pages, site_robots, rp, crawl_delay,
                   visited_urls, artifact, events, site, failed, write_failed,
                   links_failed, handled>>

\* crawler.py:151-154: the two early returns
EntryReturn ==
    /\ At("entry")
    /\ AlreadyVisited(Top.url, visited_urls) \/ BudgetReached(max_pages, visited_urls)
    /\ Return
    /\ UNCHANGED <<base_url, seed, max_pages, site_robots, rp, crawl_delay,
                   visited_urls, artifact, events, site, failed, write_failed, pc,
                   links_failed, handled>>

\* the URL is not remembered
MarkVisitedNot(visited, url) == visited

\* crawler.py:156: self.visited_urls.add(url)
MarkVisited(visited, url) == visited \cup {url}

\* crawler.py:156-157: mark the URL visited and print "Crawling"; the print
\* is outside the try block, so when it raises the exception leaves the call
EntryMark ==
    /\ At("entry")
    /\ ~AlreadyVisited(Top.url, visited_urls)
    /\ ~BudgetReached(max_pages, visited_urls)
    /\ visited_urls' = MarkVisited(visited_urls, Top.url)
    /\ \E printed \in BOOLEAN : IF printed THEN Continue("sleep") ELSE Escape
    /\ UNCHANGED <<base_url, seed, max_pages, site_robots, rp, crawl_delay,
                   artifact, events, site, failed, write_failed,
                   links_failed>>

\* crawler.py:161: time.sleep(self.crawl_delay)
Sleep ==
    /\ At("sleep")
    /\ events' = Append(events, Event("sleep", "crawl", Top.url))
    /\ Goto("fetch")
    /\ UNCHANGED <<base_url, seed, max_pages, site_robots, rp, crawl_delay,
                   visited_urls, artifact, site, failed, write_failed, pc,
                   links_failed, handled>>

\* crawler.py:165-167, 171-173: "if not x: return"; an exception leaves the
\* try block as well (caught at 185)
StopsPage(outcome) == outcome # "ok"

\* crawler.py:165-167, 171-173, 185: how the call goes on after fetch_url or
\* extract: to the next statement; back to the caller when nothing came and
\* the warning was printed; to the handler when the collaborator or the print
\* of the warning raised
AfterCollaborator(outcome, printed, next) ==
    IF ~StopsPage(outcome) THEN Continue(next)
    ELSE IF outcome = "none" /\ printed THEN Returns
    ELSE Catch

\* crawler.py:164-167: trafilatura.fetch_url
Fetch ==
    /\ At("fetch")
    /\ events' = Append(events, Event("request", "crawl", Top.url))
    /\ \E outcome \in {"ok", "none", "raise"}, printed \in BOOLEAN :
          /\ outcome # "none" => printed
          /\ failed' = IF outcome = "ok" THEN failed ELSE failed \cup {Top.url}
          /\ AfterCollaborator(outcome, printed, "extract")
    /\ UNCHANGED <<base_url, seed, max_pages, site_robots, rp, crawl_delay,
                   visited_urls, artifact, site, write_failed, links_failed>>

\* crawler.py:170-173: trafilatura.extract
Extract ==
    /\ At("extract")
    /\ \E outcome \in {"ok", "none", "raise"}, printed \in BOOLEAN :
          /\ outcome # "none" => printed
          /\ failed' = IF outcome = "ok" THEN failed ELSE failed \cup {Top.url}
          /\ AfterCollaborator(outcome, printed, "save")
    /\ UNCHANGED <<base_url, seed, max_pages, site_robots, rp, crawl_delay,
                   visited_urls, artifact, events, site, write_failed,
                   links_failed>>

\* crawler.py:185-186: the handler prints "Error crawling" and the call
\* returns; when that print raises the exception leaves the call
Handler ==
    /\ At("except")
    /\ \E printed \in BOOLEAN : IF printed THEN Returns ELSE Escape
    /\ UNCHANGED <<base_url, seed, max_pages, site_robots, rp, crawl_delay,
                   visited_urls, artifact, events, site, failed, write_failed,
                   links_failed>>

\* crawler.py:198-207: the record of a page, as far as the model keeps it:
\* the URL it was written for and whether it is there to its closing line
\* (the body is the converted text or, after a converter failure, the plain
\* text)
Record(u) == [source |-> u, whole |-> TRUE]

\* the beginning of the record of u, cut somewhere before its closing line
\* (possibly inside its source line)
Fragment(u) == [source |-> u, whole |-> FALSE]

\* crawler.py:211-212: what a write that raises part-way leaves at the end of
\* the file: a fragment, or the record to its closing line (only the last
\* newline is missing, or the failure comes when the file is closed)
Fragments(u) == {Fragment(u), Record(u)}

\* crawler.py:211-212: open(path, "a") and write: the record goes to the end
AppendRecord(file, record) == Append(file, record)

\* crawler.py:175-178, 188-215: the extracted text is printed and
\* _save_content is called. A converter failure falls back to the plain
\* text; a write failure (nothing, a part of the record or the record to its
\* closing line written) and a
\* failure of the print of line 213 are caught inside _save_content. The
\* prints of lines 175, 194 and 215 are not inside a try block of
\* _save_content: when one raises, the handler of crawl catches it.
SaveContent ==
    /\ At("save")
    /\ \/ \* the print of line 175 or of line 194 raises
          /\ artifact' = artifact
          /\ write_failed' = write_failed
          /\ Catch
       \/ \* the record is written
          \E logged \in BOOLEAN :
             /\ artifact' = AppendRecord(artifact, Record(Top.url))
             /\ write_failed' = write_failed
             /\ IF logged THEN Continue("links") ELSE Catch
       \/ \* open or write raises
          \E left \in {None} \cup {Some(f) : f \in Fragments(Top.url)},
             logged \in BOOLEAN :
             /\ artifact' = IF IsNone(left) THEN artifact
                            ELSE AppendRecord(artifact, Val(left))
             /\ write_failed' = write_failed \cup {Top.url}
             /\ IF logged THEN Continue("links") ELSE Catch
    /\ UNCHANGED <<base_url, seed, max_pages, site_robots, rp, crawl_delay,
                   visited_urls, events, site, failed, links_failed>>

\* crawler.py:181, 114-141: extract_links requests the page again and keeps
\* the anchors is_valid_url accepts; an exception of the request, of the
\* parser or of the prints of lines 134 and 137 gives the empty set, and when
\* the print of line 140 raises too the handler of crawl catches it
ExtractLinks ==
    /\ At("links")
    /\ events' = Append(events, Event("request", "extract_links", Top.url))
    /\ \E outcome \in {"ok", "raise"}, logged \in BOOLEAN :
          /\ outcome = "ok" => logged
          /\ links_failed' = IF outcome = "ok" THEN links_failed
                                                ELSE links_failed \cup {Top.url}
          /\ IF logged
             THEN /\ stack' = <<[Top EXCEPT
                                   !.pc = "loop",
                                   !.links =
                                       IF outcome = "ok"
                                       THEN ValidLinks(site[Top.url], base_url, rp)
                                       ELSE {}]>> \o Tail(stack)
                  /\ pc' = pc
                  /\ handled' = handled
             ELSE Catch
    /\ UNCHANGED <<base_url, seed, max_pages, site_robots, rp, crawl_delay,
                   visited_urls, artifact, site, failed, write_failed>>

\* crawler.py:125: requests.get is called without a timeout; a server that
\* accepts the request and stays silent keeps extract_links inside the call
ExtractLinksBlocks ==
    /\ At("links")
    /\ events' = Append(events, Event("request", "extract_links", Top.url))
    /\ pc' = "blocked_get"
    /\ UNCHANGED <<base_url, seed, max_pages, site_robots, rp, crawl_delay,
                   visited_urls, stack, artifact, site, failed, write_failed,
                   links_failed, handled>>

\* the loop is left after its first link
RestOfLinksNone(links, l) == {}

\* crawler.py:182: the for loop moves past the link it hands to crawl
RestOfLinks(links, l) == links \ {l}

\* crawler.py:182-183: the next link of the set (in the set's own order) is
\* crawled recursively
LoopCall ==
    /\ At("loop")
    /\ \E l \in Top.links :
          stack' = <<Frame(l, "entry", {}),
                     [Top EXCEPT !.links = RestOfLinks(Top.links, l)]>>
                   \o Tail(stack)
    /\ UNCHANGED <<base_url, seed, max_pages, site_robots, rp, crawl_delay,
                   visited_urls, artifact, events, site, failed, write_failed, pc,
                   links_failed, handled>>

\* crawler.py:182: the loop is exhausted and crawl returns
LoopDone ==
    /\ At("loop")
    /\ Top.links = {}
    /\ Return
    /\ UNCHANGED <<base_url, seed, max_pages, site_robots, rp, crawl_delay,
                   visited_urls, artifact, events, site, failed, write_failed, pc,
                   links_failed, handled>>

\* crawler.py:243: the outermost crawl call has returned to main
Finish ==
    /\ pc = "crawling"
    /\ stack = <<>>
    /\ pc' = "done"
    /\ UNCHANGED <<base_url, seed, max_pages, site_robots, rp, crawl_delay,
                   visited_urls, stack, artifact, events, site, failed, write_failed,
                   links_failed, handled>>

Next ==
    \/ Construct
    \/ ConstructBlocks
    \/ ConstructRaises
    \/ StartCrawl
    \/ EntryReturn
    \/ EntryMark
    \/ Sleep
    \/ Fetch
    \/ Extract
    \/ SaveContent
    \/ Handler
    \/ ExtractLinks
    \/ ExtractLinksBlocks
    \/ LoopCall
    \/ LoopDone
    \/ Finish

Spec == Init /\ [][Next]_vars

\* the interpreter runs the single thread until main returns, an exception
\* leaves main, or the thread is inside an outside call that never returns
\* (no step is enabled in these states)
FairSpec == Spec /\ WF_vars(Next)

----------------------------------------------------------------------------
(* The constructor alone, over every robots.txt answer of the bounds *)

InitDelay ==
    /\ base_url = U_root
    /\ seed = U_root
    /\ max_pages = None
    /\ site_robots \in RobotsFailures \cup RobotsFiles(RuleSets, OptDelays, OptRates)
    /\ site = SiteChain
    /\ rp = NewRobotFileParser
    /\ crawl_delay = None
    /\ visited_urls = {}
    /\ stack = <<>>
    /\ artifact = <<>>
    /\ events = <<>>
    /\ failed = {}
    /\ write_failed = {}
    /\ links_failed = {}
    /\ handled = {}
    /\ pc = "new"

NextDelay == Construct \/ ConstructBlocks \/ ConstructRaises

SpecDelay == InitDelay /\ [][NextDelay]_vars

----------------------------------------------------------------------------
(* What the claims read off a state *)

\* positions of the transport requests in the event log
Requests == {i \in DOMAIN events : events[i].ev = "request"}

\* positions of the content fetches of crawl (crawler.py:164)
ContentFetches == {i \in Requests : events[i].by = "crawl"}

\* number of transport requests that targeted u
RequestsFor(u) == Cardinality({i \in Requests : events[i].url = u})

\* extract_links requested u
LinkFetched(u) ==
    \E i \in Requests : events[i].by = "extract_links" /\ events[i].url = u

\* extract_links(u) has returned to crawl (with u's valid links, or with the
\* empty set when u is in links_failed). A call that is still inside
\* requests.get has its frame at "links"; a call that was left by the
\* exception of the print of line 140 has u in links_failed and in handled
\* (after set() is returned the loop is empty and no handler is reached)
LinksReturned(u) ==
    /\ LinkFetched(u)
    /\ ~\E k \in DOMAIN stack : stack[k].url = u /\ stack[k].pc = "links"
    /\ ~(u \in links_failed /\ u \in handled)

\* the artifact holds the record of u, complete
Recorded(u) == \E i \in DOMAIN artifact : artifact[i] = Record(u)

\* the thread is inside rp.read() or requests.get for good
Blocked == pc \in {"blocked_read", "blocked_get"}

\* an exception has left main
Raised == pc \in {"raised_init", "raised"}

Constructed == pc \notin {"new", "blocked_read", "raised_init"}

----------------------------------------------------------------------------
(* C1 *)

\* C1: no URL is the target of more than one transport request, counting the
\* content fetch of crawl and the page fetch of extract_links.
C1_AtMostOneRequestPerUrl == \A u \in URLs : RequestsFor(u) <= 1

----------------------------------------------------------------------------
(* C2 *)

\* C2: with max_pages = N, visited_urls never holds more than N URLs and no
\* more than N content fetches have been attempted, failed ones included.
C2_BudgetBound ==
    ~IsNone(max_pages) =>
        /\ Cardinality(visited_urls) <= Val(max_pages)
        /\ Cardinality(ContentFetches) <= Val(max_pages)

\* the budget is used up, every visited page was fetched, and crawl is
\* entered for a URL not seen before
C2_Witness ==
    /\ ~IsNone(max_pages)
    /\ Val(max_pages) >= 2
    /\ Cardinality(visited_urls) = Val(max_pages)
    /\ Cardinality(ContentFetches) = Val(max_pages)
    /\ failed # {}
    /\ At("entry")
    /\ Top.url \notin visited_urls

----------------------------------------------------------------------------
(* C3 *)

\* C3: every URL in visited_urls or requested, the seed included, is allowed
\* by the Robots Gate.
C3_RobotsGatesEveryUrl ==
    /\ \A u \in visited_urls : CanFetch(rp, u)
    /\ \A i \in Requests : CanFetch(rp, events[i].url)

----------------------------------------------------------------------------
(* C4 *)

\* C4: after a failed robots.txt load (read raises, or the file is missing)
\* the crawler is constructed, can_fetch is true for every URL, and
\* crawl_delay is 1.0.
C4_FailOpenPolicyLoad ==
    (Constructed /\ site_robots.outcome \in {"urlerror", "http404"}) =>
        /\ \A u \in URLs : CanFetch(rp, u)
        /\ crawl_delay = Some(DefaultDelay)

----------------------------------------------------------------------------
(* C5 *)

\* C5: a completed sleep separates every transport request of a crawl from
\* the request before it.
C5_SleepBetweenRequests ==
    \A i \in Requests :
        (\E j \in Requests : j < i) => events[i - 1].ev = "sleep"

----------------------------------------------------------------------------
(* C6 *)

\* the delay the spec's resolution order gives for a parsed robots.txt
DeclaredDelay(answer) ==
    IF ~IsNone(answer.delay) THEN Val(answer.delay)
    ELSE IF ~IsNone(answer.req_rate) THEN Val(answer.req_rate).seconds
    ELSE DefaultDelay

\* C6: crawl_delay is the declared crawl-delay if one is declared (any value
\* >= 0), else the delay of the declared request-rate, else 1.0.
C6_DelayResolution ==
    (Constructed /\ site_robots.outcome = "ok") =>
        crawl_delay = Some(DeclaredDelay(site_robots))

----------------------------------------------------------------------------
(* C7 *)

\* C7 as stated: every requested URL has the seed's host, whatever base_url
\* and seed are.
C7_FetchedOnSeedHost ==
    \A i \in Requests : events[i].url.netloc = seed.netloc

\* C7 amended: every requested URL other than the seed has base_url's host;
\* so when the seed is on base_url's host every requested URL has the seed's.
C7_FetchedOnBaseHost ==
    /\ \A i \in Requests :
          events[i].url = seed \/ events[i].url.netloc = base_url.netloc
    /\ seed.netloc = base_url.netloc =>
          \A i \in Requests : events[i].url.netloc = seed.netloc

\* the seed is off base_url's host and a discovered link has been requested
C7_Witness ==
    /\ seed.netloc # base_url.netloc
    /\ \E i \in Requests : events[i].url # seed

----------------------------------------------------------------------------
(* C8 *)

\* the links extract_links returned for p
LinksOf(p) == ValidLinks(site[p], base_url, rp)

\* C8 as stated: a failed URL never gets a record nor a link extraction;
\* when the call of a failed URL ends, its callers, with the links they still
\* have to traverse, are as they were and the crawl goes on; and at the end
\* every link of every page whose links were extracted has been traversed
\* (visited, unless the budget was used up).
C8_PageFailureLocal ==
    /\ [](\A u \in failed : ~Recorded(u) /\ ~LinkFetched(u))
    /\ [][(stack # <<>> /\ Top.url \in failed' /\ Len(stack') < Len(stack)) =>
            /\ stack' = Tail(stack)
            /\ pc' = "crawling"]_vars
    /\ [](pc = "done" =>
            \A p \in URLs \ links_failed :
                LinksReturned(p) =>
                    \A l \in LinksOf(p) :
                        l \in visited_urls \/ BudgetReached(max_pages, visited_urls))

----------------------------------------------------------------------------
(* C9 *)

\* C9: a page whose record could not be written gets no link discovery.
C9_WriteFailureStopsPage == \A u \in write_failed : ~LinkFetched(u)

----------------------------------------------------------------------------
(* C10 *)

\* C10 as stated: whatever the site, the robots.txt answer and the failures
\* of fetch, extraction, converter, write and link extraction, no exception
\* leaves crawl, and a crawl that was started returns to main.
C10_Terminates ==
    /\ [](pc # "raised")
    /\ (pc = "crawling") ~> (pc = "done")

----------------------------------------------------------------------------
(* C11 *)

\* the source URLs of a sequence of records
Sources(file) == [i \in DOMAIN file |-> file[i].source]

\* the URLs of a sequence of events
Targets(log) == [i \in DOMAIN log |-> log[i].url]

\* the content fetch and the extraction of u succeeded and crawl is past
\* line 178 for u (the call of _save_content, or a print before it that
\* raised)
Processed(u) ==
    /\ \E i \in ContentFetches : events[i].url = u
    /\ u \notin failed
    /\ ~\E k \in DOMAIN stack : stack[k].url = u /\ stack[k].pc \in {"extract", "save"}

\* the URLs whose fetch and extraction succeeded, in the order of processing
ProcessedInOrder ==
    Targets(SelectSeq(events,
                      LAMBDA e : e.ev = "request" /\ e.by = "crawl" /\ Processed(e.url)))

\* C11 as stated: in every state the artifact holds exactly one record,
\* whole, for each URL whose fetch and extraction succeeded so far, in the
\* order they were processed, and nothing else; and every step leaves the
\* artifact as it is or appends to it.
C11_ArtifactListsProcessed ==
    /\ [](artifact =
            [i \in DOMAIN ProcessedInOrder |-> Record(ProcessedInOrder[i])])
    /\ [][/\ Len(artifact') >= Len(artifact)
          /\ SubSeq(artifact', 1, Len(artifact)) = artifact]_vars

----------------------------------------------------------------------------
(* C12 *)

\* S with everything reachable from it through links is_valid_url accepts
RECURSIVE ValidClosure(_)
ValidClosure(S) ==
    LET more == S \cup UNION {ValidLinks(site[u], base_url, rp) : u \in S}
    IN  IF more = S THEN S ELSE ValidClosure(more)

\* the seed and the URLs reachable from it through chains of valid links
ReachableFromSeed == ValidClosure({seed})

\* no fetch, extraction or link extraction has failed and no exception has
\* reached the handler of line 185
NoPageFailure == failed = {} /\ links_failed = {} /\ handled = {}

\* C12: with max_pages = N >= 1, no failure and at least N URLs reachable
\* from the seed through valid links, crawl ends with exactly N visited URLs
\* and exactly N content fetches.
C12_BudgetReachedExactly ==
    (/\ pc = "done"
     /\ ~IsNone(max_pages)
     /\ Val(max_pages) >= 1
     /\ NoPageFailure
     /\ Cardinality(ReachableFromSeed) >= Val(max_pages)) =>
        /\ Cardinality(visited_urls) = Val(max_pages)
        /\ Cardinality(ContentFetches) = Val(max_pages)

\* a crawl cut off by its budget: more URLs are reachable than were visited
C12_Witness ==
    /\ pc = "done"
    /\ ~IsNone(max_pages)
    /\ Val(max_pages) >= 2
    /\ NoPageFailure
    /\ Cardinality(ReachableFromSeed) > Val(max_pages)
    /\ Cardinality(visited_urls) = Val(max_pages)

----------------------------------------------------------------------------
(* C13 *)

\* C13 as stated: every URL is_valid_url accepts has base_url's scheme and
\* host.
C13_AcceptedShareSchemeAndHost ==
    Constructed =>
        \A u \in URLs :
            is_valid_url(u, base_url, rp) =>
                u.scheme = base_url.scheme /\ u.netloc = base_url.netloc

\* C13 amended: every URL is_valid_url accepts, and so every link a crawl
\* call holds for traversal, has base_url's netloc; the scheme is not
\* compared.
C13_AcceptedShareNetloc ==
    /\ Constructed =>
          \A u \in URLs :
              is_valid_url(u, base_url, rp) => u.netloc = base_url.netloc
    /\ \A k \in DOMAIN stack :
          \A l \in stack[k].links : l.netloc = base_url.netloc

\* extract_links has accepted a link with base_url's host under another
\* scheme, and crawl has visited it
C13_Witness ==
    \E k \in DOMAIN stack :
        /\ stack[k].url.netloc = base_url.netloc
        /\ stack[k].url.scheme # base_url.scheme
        /\ stack[k].url # seed
        /\ stack[k].url \in visited_urls

----------------------------------------------------------------------------
(* C14 *)

\* the path holds one of the reserved segments /_sources/ and /_static/
HasReservedMarker(u) ==
    \E i \in 1..(Len(u.path) - 2) :
        /\ u.path[i] = "/"
        /\ u.path[i + 1] \in {"_sources", "_static"}
        /\ u.path[i + 2] = "/"

\* the three scope rules, read off the URL itself
MeetsScopeRules(u) ==
    /\ u.netloc = base_url.netloc
    /\ u.path[Len(u.path)] \in {".html", "/"}
    /\ ~HasReservedMarker(u)

\* C14: every visited URL other than the seed meets the three scope rules
\* and is allowed by the Robots Gate; a URL with a reserved-segment marker
\* that is not the seed is never visited and never requested.
C14_DiscoveredLinksFiltered ==
    /\ \A u \in visited_urls \ {seed} : MeetsScopeRules(u) /\ CanFetch(rp, u)
    /\ \A u \in URLs \ {seed} :
          HasReservedMarker(u) => u \notin visited_urls /\ RequestsFor(u) = 0

\* the crawl is over, a page listing a static-asset link had its links
\* extracted, and a discovered link was visited
C14_Witness ==
    /\ pc = "done"
    /\ \E p \in visited_urls \ links_failed :
          /\ LinkFetched(p)
          /\ \E l \in site[p] : HasReservedMarker(l)
          /\ \E l \in site[p] : l # seed /\ l \in visited_urls

----------------------------------------------------------------------------
(* C15 *)

\* u is Visiting: a crawl call for u has passed the early returns and has
\* not returned
Visiting(u) == \E k \in DOMAIN stack : stack[k].url = u /\ stack[k].pc # "entry"

\* u is Completed or Failed: visited, and its call has returned
Finished(u) == u \in visited_urls /\ ~Visiting(u)

\* C15: a URL is in visited_urls while it is Visiting and before it is
\* requested; visited_urls never shrinks; a URL enters Visiting only from
\* Unvisited; and Completed/Failed are terminal.
C15_Lifecycle ==
    /\ [](\A u \in URLs : Visiting(u) => u \in visited_urls)
    /\ [](\A i \in Requests : events[i].url \in visited_urls)
    /\ [][visited_urls \subseteq visited_urls']_vars
    /\ [][\A u \in URLs :
            (~Visiting(u) /\ Visiting(u)') => u \notin visited_urls]_vars
    /\ [][\A u \in URLs : Finished(u) => Finished(u)']_vars

\* crawl is called for a URL whose own call is still on the stack
C15_Witness ==
    /\ At("entry")
    /\ Top.url \in visited_urls
    /\ \E k \in 2..Len(stack) : stack[k].url = Top.url /\ stack[k].pc = "loop"

----------------------------------------------------------------------------
(* C16 *)

\* C16 as stated: when crawl is called for a link of a page, no link the
\* page lists before it is still waiting in the page's loop.
C16_ListedOrderFollowed ==
    (At("entry") /\ Len(stack) >= 2) =>
        \A l \in stack[2].links : Rank(Top.url) < Rank(l)

\* what one step may do to the recursion stack
DepthFirstStep ==
    \/ stack' = stack
    \/ /\ stack = <<>>
       /\ stack' = <<Frame(seed, "entry", {})>>
    \/ /\ stack # <<>>
       /\ stack' = Tail(stack)
       /\ Top.pc = "loop" => Top.links = {}
    \/ /\ stack # <<>>
       /\ Len(stack') = Len(stack)
       /\ Tail(stack') = Tail(stack)
       /\ Head(stack').url = Top.url
    \/ /\ Len(stack) >= 2
       /\ Top.pc \in {"entry", "except"}
       /\ stack' = <<[stack[2] EXCEPT !.pc = "except"]>>
                     \o SubSeq(stack, 3, Len(stack))
    \/ /\ stack # <<>>
       /\ Top.pc = "loop"
       /\ Len(stack') = Len(stack) + 1
       /\ Head(stack').pc = "entry"
       /\ Head(stack').url \in Top.links
       /\ Tail(stack') =
             <<[Top EXCEPT !.links = Top.links \ {Head(stack').url}]>> \o Tail(stack)

\* C16 amended: the links of a page are recursed into depth-first in the
\* iteration order of the link set, which need not be the order the page
\* lists them: a step starts a call for one waiting link of the innermost
\* page, or advances or ends the innermost call; the calls below it, with the
\* links they still wait for, stay as they are until it returns, and a call
\* in its loop returns only when no link is waiting; when an exception
\* leaves the innermost call (the print of line 157 or 186 raised) its
\* caller goes to its handler and traverses no further link.
C16_DepthFirst == [][DepthFirstStep]_vars

\* a link is being crawled while a link its page lists earlier still waits
C16_Witness ==
    /\ Len(stack) >= 2
    /\ Top.pc = "fetch"
    /\ \E l \in stack[2].links : Rank(l) < Rank(Top.url)

----------------------------------------------------------------------------
(* C17 *)

\* the URLs that were the target of a transport request
Fetched == {events[i].url : i \in Requests}

\* C17: without a budget and without failures (every outside call returns
\* and succeeds, no exception is raised) crawl returns with
\* visited_urls (and the fetched URLs) equal to the URLs reachable from the
\* seed through chains of valid links; nothing else is ever visited or
\* fetched.
C17_ExhaustiveTraversal ==
    /\ <>(pc = "done" \/ Blocked \/ Raised)
    /\ [](visited_urls \subseteq ReachableFromSeed /\ Fetched \subseteq ReachableFromSeed)
    /\ []((pc = "done" /\ IsNone(max_pages) /\ NoPageFailure) =>
             visited_urls = ReachableFromSeed /\ Fetched = ReachableFromSeed)

\* the chain root -> b -> out-of-domain page, crawled to the end
C17_Witness ==
    /\ pc = "done"
    /\ IsNone(max_pages)
    /\ NoPageFailure
    /\ site = SiteChain
    /\ seed = U_root
    /\ visited_urls = {U_root, U_b}
    /\ Sources(artifact) = <<U_root, U_b>>
    /\ RequestsFor(U_ext) = 0

----------------------------------------------------------------------------
(* C18 *)

\* crawl has been called with a visited URL, or with the budget used up
EarlyReturnCase ==
    /\ At("entry")
    /\ \/ Top.url \in visited_urls
       \/ ~IsNone(max_pages) /\ Cardinality(visited_urls) >= Val(max_pages)

\* C18: such a call returns in its next step and changes nothing else: no
\* URL is marked, no record appended, no sleep, fetch or link extraction.
C18_EarlyReturnFrame ==
    [][EarlyReturnCase =>
          /\ stack' = Tail(stack)
          /\ visited_urls' = visited_urls
          /\ artifact' = artifact
          /\ events' = events
          /\ failed' = failed
          /\ write_failed' = write_failed
          /\ links_failed' = links_failed
          /\ handled' = handled
          /\ pc' = pc]_vars

\* crawl is called from a page's loop for a new URL when the budget is used
\* up and a record has been written
C18_Witness ==
    /\ EarlyReturnCase
    /\ Len(stack) >= 2
    /\ Top.url \notin visited_urls
    /\ Len(artifact) >= 1

----------------------------------------------------------------------------
(* C19 *)

\* two URL strings of one document: they differ in the query or the fragment
\* only
SameDocument(a, b) ==
    a # b /\ a.scheme = b.scheme /\ a.netloc = b.netloc /\ a.path = b.path

\* extract_links returned l for some page
Discovered(l) ==
    \E p \in URLs \ links_failed : LinksReturned(p) /\ l \in LinksOf(p)

\* number of content fetches of u
ContentFetchesOf(u) == Cardinality({i \in ContentFetches : events[i].url = u})

\* number of complete records of u
RecordsOf(u) == Cardinality({i \in DOMAIN artifact : artifact[i] = Record(u)})

\* C19: after a crawl in which no exception reached the handler of line
\* 185, two discovered links that differ only in the query or the fragment
\* are each in visited_urls unless the budget was used up; each one that is
\* in visited_urls was fetched once on its own and has at most one record of
\* its own: none when its fetch or extraction failed, one when they and the
\* write succeeded.
C19_FragmentsAreDistinctUrls ==
    (pc = "done" /\ handled = {}) =>
        \A a \in URLs, b \in URLs :
            (SameDocument(a, b) /\ Discovered(a) /\ Discovered(b)) =>
                \A u \in {a, b} :
                    /\ u \in visited_urls \/ BudgetReached(max_pages, visited_urls)
                    /\ u \in visited_urls =>
                          /\ ContentFetchesOf(u) = 1
                          /\ RecordsOf(u) <= 1
                          /\ u \in failed => RecordsOf(u) = 0
                          /\ u \notin failed \cup write_failed => RecordsOf(u) = 1

\* the spellings of one document, with and without a fragment or with and
\* without a query, were both discovered, visited and recorded
C19_Witness ==
    /\ pc = "done"
    /\ handled = {}
    /\ \E v \in {U_bfrag, U_bq} :
          /\ Discovered(U_b) /\ Discovered(v)
          /\ {U_b, v} \subseteq visited_urls
          /\ RecordsOf(U_b) = 1
          /\ RecordsOf(v) = 1

----------------------------------------------------------------------------
(* C20 *)

\* positions in the stack of the calls that are past the early returns
ActiveCalls == {i \in DOMAIN stack : stack[i].pc # "entry"}

\* C20: the calls past the early returns are for pairwise distinct URLs, all
\* in visited_urls, so there are at most |visited_urls| of them; with a
\* budget of N the recursion is at most N + 1 calls deep.
C20_RecursionDepthBound ==
    /\ \A i \in ActiveCalls : stack[i].url \in visited_urls
    /\ \A i \in ActiveCalls, j \in ActiveCalls :
           stack[i].url = stack[j].url => i = j
    /\ Cardinality(ActiveCalls) <= Cardinality(visited_urls)
    /\ ~IsNone(max_pages) => Len(stack) <= Val(max_pages) + 1

\* the recursion is N + 1 deep: N calls in progress and one just entered
C20_Witness ==
    /\ ~IsNone(max_pages)
    /\ Val(max_pages) >= 2
    /\ Len(stack) = Val(max_pages) + 1
    /\ Cardinality(ActiveCalls) = Val(max_pages)
    /\ At("entry")

====
